---- MODULE Spec2Model ----
(***************************************************************************)
(* Model of simpy.py: Laurent-polynomial arithmetic on dictionaries, the   *)
(* relators of simple knots and Hedden knots in lens spaces, the Fox       *)
(* derivative and the normalisation pipeline of the two knot classes.      *)
(*                                                                         *)
(* A Laurent polynomial (a Python dict exponent -> coefficient) is a       *)
(* function whose DOMAIN is the finite set of keys.  A relator (a Python   *)
(* string) is a sequence of one-letter strings.  The program is            *)
(* single-threaded: a driver at the top level ("idle") makes one call      *)
(* after another; the recursion of divide_laurent and the nested calls of  *)
(* the two constructors are the positions of pc.                           *)
(***************************************************************************)
EXTENDS Integers, Sequences, FiniteSets, TLC

(***************************************************************************)
(* Bounds of the model.                                                    *)
(***************************************************************************)
MaxP == 6            \* knots are built for 2 <= p <= MaxP
MaxWordLen == 4      \* words handed to free_differential_a directly
MaxExpIn == 1        \* exponents of the polynomials the driver passes in
MaxCoef == 2         \* coefficients of the polynomials the driver passes in
MaxDivisorExp == 1   \* largest exponent of a divisor the driver passes in
MaxDepth == 8        \* recursion limit of the interpreter

(***************************************************************************)
(* Dictionaries.                                                           *)
(***************************************************************************)
EmptyPoly == [e \in {} |-> 0]

Monomial(e, c) == [x \in {e} |-> c]

Coef(poly, e) == IF e \in DOMAIN poly THEN poly[e] ELSE 0

SetItem(d, key, value) == [x \in DOMAIN d \cup {key} |-> IF x = key THEN value ELSE d[x]]

NonZero(poly) == [key \in {k \in DOMAIN poly : poly[k] # 0} |-> poly[key]]

RECURSIVE SumOver(_, _)
SumOver(S, f) ==
    IF S = {} THEN 0
    ELSE LET x == CHOOSE y \in S : TRUE IN f[x] + SumOver(S \ {x}, f)

MaxExp(poly) == CHOOSE m \in DOMAIN poly : \A e \in DOMAIN poly : e <= m

MinExp(poly) == CHOOSE m \in DOMAIN poly : \A e \in DOMAIN poly : m <= e

CoefSum(poly) == SumOver(DOMAIN poly, poly)

Abs(x) == IF x < 0 THEN -x ELSE x

\* int(a / b): true division, then truncation toward zero
IntOfQuotient(a, b) ==
    IF (a < 0) = (b < 0) THEN Abs(a) \div Abs(b) ELSE -(Abs(a) \div Abs(b))

(***************************************************************************)
(* Laurent polynomial arithmetic.                                          *)
(***************************************************************************)
add_laurent(poly1, poly2) ==
    LET poly == [power \in DOMAIN poly1 \cup DOMAIN poly2 |->
                    Coef(poly1, power) + Coef(poly2, power)]
    IN  NonZero(poly)

multiply_laurent(poly1, poly2) ==
    LET powers == {power1 + power2 : power1 \in DOMAIN poly1, power2 \in DOMAIN poly2}
        poly == [power \in powers |->
                    SumOver({power1 \in DOMAIN poly1 : power - power1 \in DOMAIN poly2},
                            [power1 \in DOMAIN poly1 |->
                                poly1[power1] * Coef(poly2, power - power1)])]
    IN  NonZero(poly)

DelItem(d, key) == [x \in DOMAIN d \ {key} |-> d[x]]

\* The outcomes of simplify_laurent(poly); arg is the caller's dictionary
\* after the call.  The loop pops from the dictionary it is iterating over:
\* the iterator raises RuntimeError at its next step, after the first pop.
\* Which zero entry comes first is the insertion order, not modelled.
simplify_laurent(poly) ==
    IF \E k \in DOMAIN poly : poly[k] = 0
    THEN {[status |-> "RuntimeError", value |-> EmptyPoly, arg |-> DelItem(poly, k)] :
            k \in {x \in DOMAIN poly : poly[x] = 0}}
    ELSE {[status |-> "ok", value |-> poly, arg |-> poly]}

symmetrize_laurent(poly) ==
    LET k == (MaxExp(poly) + MinExp(poly)) \div 2
    IN  multiply_laurent(Monomial(-k, 1), poly)

\* positive_laurent with the sign of the shift lost
positive_laurent_wrong_sign(poly) ==
    LET k == MinExp(poly)
    IN  multiply_laurent(Monomial(k, 1), poly)

positive_laurent(poly) ==
    LET k == MinExp(poly)
    IN  multiply_laurent(Monomial(-k, 1), poly)

allones(p) == [power \in 0..(p - 1) |-> 1]

\* divide_laurent adding the shifted divisor instead of subtracting it
divide_laurent_adds(poly1, poly2, quotient) ==
    IF DOMAIN poly1 = {} \/ DOMAIN poly2 = {}
    THEN [kind |-> "raise", exc |-> "ValueError", poly1 |-> poly1, quotient |-> quotient]
    ELSE LET k == MaxExp(poly1) - MaxExp(poly2) IN
         IF k = 0
         THEN [kind |-> "return", exc |-> "", poly1 |-> poly1,
               quotient |-> SetItem(quotient, 0, 1)]
         ELSE IF poly2[MaxExp(poly2)] = 0
         THEN [kind |-> "raise", exc |-> "ZeroDivisionError", poly1 |-> poly1,
               quotient |-> quotient]
         ELSE LET c == IntOfQuotient(poly1[MaxExp(poly1)], poly2[MaxExp(poly2)])
                  q2 == SetItem(quotient, k, c)
              IN  [kind |-> "recurse", exc |-> "",
                   poly1 |-> add_laurent(poly1, multiply_laurent(Monomial(k, c), poly2)),
                   quotient |-> q2]

\* One activation of divide_laurent: it raises, returns the accumulator, or
\* calls itself on the reduced dividend with the same accumulator object.
divide_laurent(poly1, poly2, quotient) ==
    IF DOMAIN poly1 = {} \/ DOMAIN poly2 = {}
    THEN [kind |-> "raise", exc |-> "ValueError", poly1 |-> poly1, quotient |-> quotient]
    ELSE LET k == MaxExp(poly1) - MaxExp(poly2) IN
         IF k = 0
         THEN [kind |-> "return", exc |-> "", poly1 |-> poly1,
               quotient |-> SetItem(quotient, 0, 1)]
         ELSE IF poly2[MaxExp(poly2)] = 0
         THEN [kind |-> "raise", exc |-> "ZeroDivisionError", poly1 |-> poly1,
               quotient |-> quotient]
         ELSE LET c == IntOfQuotient(poly1[MaxExp(poly1)], poly2[MaxExp(poly2)])
                  q2 == SetItem(quotient, k, c)
              IN  [kind |-> "recurse", exc |-> "",
                   poly1 |-> add_laurent(poly1, multiply_laurent(Monomial(k, -c), poly2)),
                   quotient |-> q2]

(***************************************************************************)
(* Relators and abelianization.                                            *)
(***************************************************************************)
RECURSIVE simple_relator_from(_, _, _, _)
simple_relator_from(p, q, k, i) ==
    IF i >= p THEN <<>>
    ELSE LET j == (i * q) % p
         IN  (IF j < k THEN <<"a", "b">> ELSE <<"a">>) \o simple_relator_from(p, q, k, i + 1)

simple_relator(p, q, k) == simple_relator_from(p, q, k, 0)

RECURSIVE hedden_relator_from(_, _, _)
hedden_relator_from(p, q, i) ==
    IF i >= p - 1 THEN <<>>
    ELSE (IF ((i * q) % p) + q >= p THEN <<"b", "a">> ELSE <<"a">>)
         \o hedden_relator_from(p, q, i + 1)

hedden_relator(p, q) == <<"a", "b", "A", "b", "a">> \o hedden_relator_from(p, q, 0)

abelianization(relator) ==
    LET j == Cardinality({i \in DOMAIN relator : relator[i] = "a"})
        k == Cardinality({i \in DOMAIN relator : relator[i] # "a"})
    IN  [a |-> k, b |-> -j, A |-> -k, B |-> j]

(***************************************************************************)
(* Fox derivative with respect to "a", one operator per knot class.  abel  *)
(* is self.abelianization.  The empty word returns None.  The test         *)
(* rest = rest only fixes the order of evaluation: as in Python, the call  *)
(* on relator[1:] has returned before add_laurent and multiply_laurent run.*)
(***************************************************************************)
None == "None"

\* hedden_knot.free_differential_a with "A" sent to -t^abel(A)
RECURSIVE hedden_knot_free_differential_a_inverse(_, _)
hedden_knot_free_differential_a_inverse(abel, relator) ==
    IF Len(relator) = 0 THEN None
    ELSE IF Len(relator) = 1
    THEN IF relator[1] = "a" THEN Monomial(0, 1)
         ELSE IF relator[1] = "b" THEN Monomial(0, 0)
         ELSE Monomial(abel["A"], -1)
    ELSE LET rest == hedden_knot_free_differential_a_inverse(abel, Tail(relator)) IN
         IF rest = rest
         THEN add_laurent(hedden_knot_free_differential_a_inverse(abel, <<relator[1]>>),
                          multiply_laurent(Monomial(abel[relator[1]], 1), rest))
         ELSE None

RECURSIVE hedden_knot_free_differential_a(_, _)
hedden_knot_free_differential_a(abel, relator) ==
    IF Len(relator) = 0 THEN None
    ELSE IF Len(relator) = 1
    THEN IF relator[1] = "a" THEN Monomial(0, 1)
         ELSE IF relator[1] = "b" THEN Monomial(0, 0)
         ELSE Monomial(abel["a"], -1)
    ELSE LET rest == hedden_knot_free_differential_a(abel, Tail(relator)) IN
         IF rest = rest
         THEN add_laurent(hedden_knot_free_differential_a(abel, <<relator[1]>>),
                          multiply_laurent(Monomial(abel[relator[1]], 1), rest))
         ELSE None

RECURSIVE simple_knot_free_differential_a(_, _)
simple_knot_free_differential_a(abel, relator) ==
    IF Len(relator) = 0 THEN None
    ELSE IF Len(relator) = 1
    THEN IF relator[1] = "a" THEN Monomial(0, 1) ELSE Monomial(0, 0)
    ELSE LET rest == simple_knot_free_differential_a(abel, Tail(relator)) IN
         IF rest = rest
         THEN add_laurent(simple_knot_free_differential_a(abel, <<relator[1]>>),
                          multiply_laurent(Monomial(abel[relator[1]], 1), rest))
         ELSE None

free_differential_a(knot, relator) ==
    IF knot.class = "hedden_knot"
    THEN hedden_knot_free_differential_a(knot.abelianization, relator)
    ELSE simple_knot_free_differential_a(knot.abelianization, relator)

(***************************************************************************)
(* Inputs of the driver.                                                   *)
(***************************************************************************)
RECURSIVE Gcd(_, _)
Gcd(x, y) == IF y = 0 THEN x ELSE Gcd(y, x % y)

\* p, q as the docstrings of the relators require them
ValidPQ == {pq \in (2..MaxP) \X (1..MaxP) : pq[2] < pq[1] /\ Gcd(pq[1], pq[2]) = 1}

PolyInputs == UNION {[S -> 0..MaxCoef] : S \in SUBSET (0..MaxExpIn)}

Divisors == {d \in PolyInputs : /\ DOMAIN d # {}
                                /\ MaxExp(d) <= MaxDivisorExp
                                /\ d[MaxExp(d)] # 0}

\* quotients of the round trip: not the zero polynomial, whose product with
\* the divisor is {} and has no maximum exponent
Quotients == {q \in PolyInputs : \E e \in DOMAIN q : q[e] # 0}

Letters == {"a", "b", "A", "B"}

Words == UNION {[1..n -> Letters] : n \in 2..MaxWordLen}

(***************************************************************************)
(* State.                                                                  *)
(***************************************************************************)
VARIABLES
    pc,               \* position: "idle", or the nested call a constructor or
                      \* divide_laurent is at
    caller,           \* the top-level call that is running or ran last
    self,             \* the knot object under construction or built last
    poly,             \* the value flowing through the nested calls of line 248/301
    frame,            \* the activation of divide_laurent: poly1, poly2, quotient, depth
    defaultQuotient,  \* the dict bound once to the default of parameter quotient
    saved,            \* the first value the driver got back from divide_laurent
                      \* called without quotient: what it held then
    args,             \* arguments of the call (poly1, poly2, word, p, q, k)
    ret               \* outcome of the call that ran last: status and value

vars == <<pc, caller, self, poly, frame, defaultQuotient, saved, args, ret>>

NoKnot == [class |-> "none", p |-> 0, q |-> 0, k |-> 0, relator |-> <<>>,
           abelianization |-> [a |-> 0, b |-> 0, A |-> 0, B |-> 0],
           alexander_polynomial |-> EmptyPoly]

NoFrame == [poly1 |-> EmptyPoly, poly2 |-> EmptyPoly, quotient |-> EmptyPoly, depth |-> 0]

NoArgs == [poly1 |-> EmptyPoly, poly2 |-> EmptyPoly, word |-> <<>>, p |-> 0, q |-> 0, k |-> 0]

Running == [status |-> "running", value |-> EmptyPoly, arg |-> EmptyPoly]

Outcome(status, value) == [status |-> status, value |-> value, arg |-> EmptyPoly]

KnotCallers == {"simple_knot", "hedden_knot"}

Init ==
    /\ pc = "idle"
    /\ caller = "none"
    /\ self = NoKnot
    /\ poly = EmptyPoly
    /\ frame = NoFrame
    /\ defaultQuotient = EmptyPoly
    /\ saved = [set |-> FALSE, value |-> EmptyPoly]
    /\ args = NoArgs
    /\ ret = Outcome("none", EmptyPoly)

\* An exception leaves the running call: the driver is back at the top level,
\* and a constructor that raised has built no object.
Raise(exc) ==
    /\ pc' = "idle"
    /\ ret' = Outcome(exc, EmptyPoly)
    /\ poly' = EmptyPoly
    /\ frame' = NoFrame
    /\ self' = IF caller \in KnotCallers THEN NoKnot ELSE self
    /\ UNCHANGED <<caller, args, saved>>

\* the driver holds nothing and is free to make the next call
AtTopLevel == pc = "idle" /\ caller = "none"

\* the exact divisions the driver asks for without an accumulator
DefaultCalls == {<<multiply_laurent(allones(m), allones(n)), allones(m)>> :
                    m \in 1..2, n \in 1..2}

(***************************************************************************)
(* The constructors.  Lines 243-247 and 296-300 set the fields; line 248   *)
(* and line 301 are nested calls, run innermost first.                     *)
(***************************************************************************)
simple_knot_init ==
    /\ AtTopLevel
    /\ \E pq \in ValidPQ : \E k \in 1..(pq[1] - 1) :
         LET p == pq[1]
             q == pq[2]
             relator == simple_relator(p, q, k)
         IN  /\ self' = [class |-> "simple_knot", p |-> p, q |-> q, k |-> k,
                         relator |-> relator,
                         abelianization |-> abelianization(relator),
                         alexander_polynomial |-> EmptyPoly]
             /\ args' = [NoArgs EXCEPT !.p = p, !.q = q, !.k = k]
    /\ pc' = "free_differential_a"
    /\ caller' = "simple_knot"
    /\ ret' = Running
    /\ poly' = EmptyPoly
    /\ frame' = NoFrame
    /\ UNCHANGED <<defaultQuotient, saved>>

hedden_knot_init ==
    /\ AtTopLevel
    /\ \E pq \in ValidPQ :
         LET p == pq[1]
             q == pq[2]
             relator == hedden_relator(p, q)
         IN  /\ self' = [class |-> "hedden_knot", p |-> p, q |-> q, k |-> q + 1,
                         relator |-> relator,
                         abelianization |-> abelianization(relator),
                         alexander_polynomial |-> EmptyPoly]
             /\ args' = [NoArgs EXCEPT !.p = p, !.q = q]
    /\ pc' = "free_differential_a"
    /\ caller' = "hedden_knot"
    /\ ret' = Running
    /\ poly' = EmptyPoly
    /\ frame' = NoFrame
    /\ UNCHANGED <<defaultQuotient, saved>>

init_free_differential_a ==
    /\ pc = "free_differential_a"
    /\ poly' = free_differential_a(self, self.relator)
    /\ pc' = "simplify_laurent"
    /\ UNCHANGED <<caller, self, frame, defaultQuotient, saved, args, ret>>

init_simplify_laurent ==
    /\ pc = "simplify_laurent"
    /\ \E r \in simplify_laurent(poly) :
         IF r.status = "ok"
         THEN /\ poly' = r.value
              /\ pc' = "positive_laurent"
              /\ UNCHANGED <<caller, self, frame, args, ret, saved>>
         ELSE Raise(r.status)
    /\ UNCHANGED defaultQuotient

init_positive_laurent ==
    /\ pc = "positive_laurent"
    /\ IF DOMAIN poly = {}
       THEN Raise("ValueError")
       ELSE /\ poly' = positive_laurent(poly)
            /\ IF caller = "simple_knot"
               THEN /\ pc' = "divide_laurent"
                    /\ frame' = [poly1 |-> poly', poly2 |-> allones(self.p),
                                 quotient |-> Monomial(0, 0), depth |-> 1]
               ELSE /\ pc' = "symmetrize_laurent"
                    /\ frame' = NoFrame
            /\ UNCHANGED <<caller, self, args, ret, saved>>
    /\ UNCHANGED defaultQuotient

init_symmetrize_laurent ==
    /\ pc = "symmetrize_laurent"
    /\ IF DOMAIN poly = {}
       THEN Raise("ValueError")
       ELSE /\ self' = [self EXCEPT !.alexander_polynomial = symmetrize_laurent(poly)]
            /\ ret' = Outcome("ok", self'.alexander_polynomial)
            /\ pc' = "idle"
            /\ poly' = EmptyPoly
            /\ frame' = NoFrame
            /\ UNCHANGED <<caller, args, saved>>
    /\ UNCHANGED defaultQuotient

(***************************************************************************)
(* One activation of divide_laurent, for whoever called it.  A call without*)
(* the third argument works on the one dict of the default, so every       *)
(* assignment to quotient is an assignment to defaultQuotient.             *)
(***************************************************************************)
divide_laurent_call ==
    /\ pc = "divide_laurent"
    /\ LET r == divide_laurent(frame.poly1, frame.poly2, frame.quotient) IN
       /\ defaultQuotient' = IF caller = "divide_default" THEN r.quotient
                             ELSE defaultQuotient
       /\ IF r.kind = "raise"
          THEN Raise(r.exc)
          ELSE IF r.kind = "recurse"
          THEN IF frame.depth >= MaxDepth
               THEN Raise("RecursionError")
               ELSE /\ frame' = [frame EXCEPT !.poly1 = r.poly1,
                                              !.quotient = r.quotient,
                                              !.depth = frame.depth + 1]
                    /\ UNCHANGED <<pc, caller, self, poly, saved, args, ret>>
          ELSE IF caller = "simple_knot"
          THEN /\ poly' = r.quotient
               /\ pc' = "symmetrize_laurent"
               /\ frame' = NoFrame
               /\ UNCHANGED <<caller, self, saved, args, ret>>
          ELSE /\ ret' = Outcome("ok", r.quotient)
               /\ pc' = "idle"
               /\ frame' = NoFrame
               /\ saved' = IF caller = "divide_default" /\ ~saved.set
                           THEN [set |-> TRUE, value |-> r.quotient]
                           ELSE saved
               /\ UNCHANGED <<caller, self, poly, args>>

(***************************************************************************)
(* Calls of the driver on the module's functions and on a built knot.      *)
(***************************************************************************)
call_simplify_laurent ==
    /\ AtTopLevel
    /\ \E p \in PolyInputs :
         /\ args' = [NoArgs EXCEPT !.poly1 = p]
         /\ \E r \in simplify_laurent(p) : ret' = r
    /\ caller' = "simplify_laurent"
    /\ UNCHANGED <<pc, self, poly, frame, defaultQuotient, saved>>

\* divide_laurent(multiply_laurent(p2, q), p2, defaultdict(int))
call_divide_roundtrip ==
    /\ AtTopLevel
    /\ \E q \in Quotients : \E p2 \in Divisors :
         /\ args' = [NoArgs EXCEPT !.poly1 = q, !.poly2 = p2]
         /\ frame' = [poly1 |-> multiply_laurent(p2, q), poly2 |-> p2,
                      quotient |-> EmptyPoly, depth |-> 1]
    /\ caller' = "divide_roundtrip"
    /\ pc' = "divide_laurent"
    /\ ret' = Running
    /\ UNCHANGED <<self, poly, defaultQuotient, saved>>

\* divide_laurent(p1, p2)
call_divide_default ==
    /\ AtTopLevel
    /\ \E c \in DefaultCalls :
         LET p1 == c[1]
             p2 == c[2]
         IN  /\ args' = [NoArgs EXCEPT !.poly1 = p1, !.poly2 = p2]
             /\ frame' = [poly1 |-> p1, poly2 |-> p2,
                          quotient |-> defaultQuotient, depth |-> 1]
    /\ caller' = "divide_default"
    /\ pc' = "divide_laurent"
    /\ ret' = Running
    /\ UNCHANGED <<self, poly, defaultQuotient, saved>>

\* knot.free_differential_a(word) on the knot built last
call_free_differential_a ==
    /\ pc = "idle"
    /\ caller \in KnotCallers
    /\ ret.status = "ok"
    /\ \E word \in Words :
         /\ args' = [args EXCEPT !.word = word]
         /\ ret' = Outcome("ok", free_differential_a(self, word))
    /\ caller' = "free_differential_a"
    /\ UNCHANGED <<pc, self, poly, frame, defaultQuotient, saved>>

\* The driver drops what the last call gave it (the default dict of
\* divide_laurent and the reference kept in saved stay).
discard ==
    /\ pc = "idle"
    /\ caller # "none"
    /\ caller' = "none"
    /\ args' = NoArgs
    /\ ret' = Outcome("none", EmptyPoly)
    /\ self' = NoKnot
    /\ UNCHANGED <<pc, poly, frame, defaultQuotient, saved>>

Next ==
    \/ simple_knot_init
    \/ hedden_knot_init
    \/ init_free_differential_a
    \/ init_simplify_laurent
    \/ init_positive_laurent
    \/ init_symmetrize_laurent
    \/ divide_laurent_call
    \/ call_simplify_laurent
    \/ call_divide_roundtrip
    \/ call_divide_default
    \/ call_free_differential_a
    \/ discard

Spec == Init /\ [][Next]_vars

(***************************************************************************)
(* Properties.                                                             *)
(***************************************************************************)
Returned(f) == pc = "idle" /\ caller = f

Built(class) == Returned(class) /\ ret.status = "ok"

\* a whole call of divide_laurent, activations chained as divide_laurent_call
\* chains them, in a program where nothing ran before
RECURSIVE DivideRun(_, _, _, _)
DivideRun(poly1, poly2, quotient, depth) ==
    LET r == divide_laurent(poly1, poly2, quotient) IN
    IF r.kind = "raise" THEN Outcome(r.exc, EmptyPoly)
    ELSE IF r.kind = "return" THEN Outcome("ok", r.quotient)
    ELSE IF depth >= MaxDepth THEN Outcome("RecursionError", EmptyPoly)
    ELSE DivideRun(r.poly1, poly2, r.quotient, depth + 1)

RECURSIVE WordImage(_, _)
WordImage(abel, w) == IF w = <<>> THEN 0 ELSE abel[Head(w)] + WordImage(abel, Tail(w))

\* the closed form of the Fox derivative: the letter at position i, moved by
\* the image of the letters before it
ClosedForm(class, abel, w) ==
    LET before(i) == WordImage(abel, SubSeq(w, 1, i - 1))
        plus(e) == Cardinality({i \in DOMAIN w : w[i] = "a" /\ before(i) = e})
        minus(e) == IF class = "hedden_knot"
                    THEN Cardinality({i \in DOMAIN w :
                                        w[i] = "A" /\ abel["a"] + before(i) = e})
                    ELSE 0
        exps == {before(i) : i \in DOMAIN w} \cup {abel["a"] + before(i) : i \in DOMAIN w}
    IN  NonZero([e \in exps |-> plus(e) - minus(e)])

\* C1: for every SimpleKnot(p,q,k) with p >= 2, 0 < q < p, gcd(p,q) = 1 and
\* 0 < k < p, k sharing a factor with p included, the coefficients of
\* alexander_polynomial sum to +1 or -1.
C1_SimpleKnotSumIsUnit ==
    Built("simple_knot") => CoefSum(self.alexander_polynomial) \in {1, -1}

\* C2: for every HeddenKnot(p,q) with p >= 2, 0 < q < p and gcd(p,q) = 1 the
\* coefficients of alexander_polynomial sum to +1 or -1.
C2_HeddenKnotSumIsUnit ==
    Built("hedden_knot") => CoefSum(self.alexander_polynomial) \in {1, -1}

\* C3: the alexander_polynomial of every SimpleKnot and HeddenKnot built from
\* valid parameters is symmetric about 0: its minimum exponent is the
\* negative of its maximum exponent.
C3_PolynomialSymmetricAboutZero ==
    (Built("simple_knot") \/ Built("hedden_knot")) =>
        /\ DOMAIN self.alexander_polynomial # {}
        /\ MinExp(self.alexander_polynomial) = -MaxExp(self.alexander_polynomial)

\* C4: SimpleKnot(2,1,1) is built and its alexander_polynomial is exactly {0: 1}.
C4_SimpleKnot211IsTrivial ==
    (Returned("simple_knot") /\ args.p = 2 /\ args.q = 1 /\ args.k = 1) =>
        /\ ret.status = "ok"
        /\ self.alexander_polynomial = Monomial(0, 1)

C4_Witness ==
    /\ Built("simple_knot")
    /\ self.p = 2 /\ self.q = 1 /\ self.k = 1
    /\ self.relator = <<"a", "b", "a">>

\* C5: divide(multiply(p2,q), p2) with a fresh empty accumulator returns q
\* with its zero-coefficient entries removed, for every q and every p2 with a
\* nonzero leading coefficient.
C5_DivideRoundTrip ==
    Returned("divide_roundtrip") =>
        /\ ret.status = "ok"
        /\ ret.value = NonZero(args.poly1)

\* C6: a call divide(p1,p2) without the accumulator returns what the same
\* call returns when it is the first call of a fresh program, whatever calls
\* came before, and a value an earlier divide call returned is not changed by
\* later calls.
C6_DivideIsRepeatable ==
    /\ Returned("divide_default") =>
           ret = DivideRun(args.poly1, args.poly2, EmptyPoly, 1)
    /\ saved.set => defaultQuotient = saved.value

\* C7: simplify(p) returns p with all zero-coefficient entries removed and no
\* other change, leaves no zero-coefficient entry, and simplifying the result
\* again returns the same.
C7_SimplifyRemovesZeros ==
    Returned("simplify_laurent") =>
        /\ ret.status = "ok"
        /\ ret.value = NonZero(args.poly1)
        /\ \A e \in DOMAIN ret.value : ret.value[e] # 0
        /\ \A again \in simplify_laurent(ret.value) :
              again.status = "ok" /\ again.value = ret.value

C9_AbelianizationKillsRelator ==
    self.class # "none" => WordImage(self.abelianization, self.relator) = 0

\* C10: building SimpleKnot(p,q,k) from valid parameters ends with a
\* polynomial: the division by allones(p) never meets an empty remainder or a
\* remainder of maximum exponent below p-1, takes no more activations than
\* the maximum exponent has dropped, and no step of the constructor raises.
C10_SimpleKnotDivisionTerminates ==
    caller = "simple_knot" =>
        /\ ret.status = (IF pc = "idle" THEN "ok" ELSE "running")
        /\ pc = "divide_laurent" =>
            /\ DOMAIN frame.poly1 # {}
            /\ MaxExp(frame.poly1) >= self.p - 1
            /\ frame.depth <= 1 + MaxExp(poly) - MaxExp(frame.poly1)

C10_Witness ==
    /\ Built("simple_knot")
    /\ Gcd(self.p, self.k) > 1
    /\ Cardinality(DOMAIN self.alexander_polynomial) >= 3

====
